---- MODULE Spec2Model ----
(***************************************************************************)
(* A model of helpers/call_utils.py: sentence splitting, chunk packing,    *)
(* SSML building and the play / recognize operations over the call         *)
(* automation SDK.  Texts are sequences of one-character strings.          *)
(***************************************************************************)
EXTENDS Integers, Sequences, FiniteSets, TLC

VARIABLES pc, op, text, hasText, style, store, include_last,
          messages, messages0, frags, chunks, k, sdk, logs, raised

vars == <<pc, op, text, hasText, style, store, include_last,
          messages, messages0, frags, chunks, k, sdk, logs, raised>>

(***************************************************************************)
(* Bounds of the model.                                                    *)
(***************************************************************************)
\* number of pieces a text given to the pure text functions is built from
MaxPieces == 4
\* number of pieces a text given to a call operation is built from
MaxCallPieces == 2
\* length of the medium run of letters among the pieces
LongRun == 199

(***************************************************************************)
(* Program constants.                                                      *)
(***************************************************************************)
\* handle_play: "if len(chunk) + len(to_add) >= 400"
ChunkLimit == 400
\* _audio_from_text: "if len(text) > 400" / "text[:400]"
TtsLimit == 400
\* _handle_recognize_media: end_silence_timeout=3
RecognizeSilenceTimeout == 3
\* handle_recognize_ivr: end_silence_timeout=20
IvrSilenceTimeout == 20

(***************************************************************************)
(* Strings.                                                                *)
(***************************************************************************)
Rep(c, n) == [i \in 1..n |-> c]

RECURSIVE Flatten(_)
Flatten(ss) == IF ss = <<>> THEN <<>> ELSE Head(ss) \o Flatten(Tail(ss))

\* the characters str.strip() removes (those the model's texts can hold)
Whitespace == {" ", "\n", "\t", "\r"}

RECURSIVE FirstNonSpace(_, _)
FirstNonSpace(s, i) ==
    IF i > Len(s) \/ s[i] \notin Whitespace THEN i ELSE FirstNonSpace(s, i + 1)

RECURSIVE LastNonSpace(_, _)
LastNonSpace(s, i) ==
    IF i < 1 \/ s[i] \notin Whitespace THEN i ELSE LastNonSpace(s, i - 1)

\* str.strip(): whitespace removed at both ends
Strip(s) == SubSeq(s, FirstNonSpace(s, 1), LastNonSpace(s, Len(s)))

\* s[:n]
Take(s, n) == SubSeq(s, 1, IF Len(s) < n THEN Len(s) ELSE n)

(***************************************************************************)
(* _SENTENCE_PUNCTUATION_R = (\. |\.$|[!?;]) and re.split.                 *)
(***************************************************************************)
\* "$" without re.MULTILINE: the end of the string, or just before a newline
\* that ends the string
AtDollar(t, p) == p = Len(t) + 1 \/ (p = Len(t) /\ t[p] = "\n")

\* length of the pattern's match starting at position p of t, 0 for no match
MatchLen(t, p) ==
    IF t[p] = "." /\ p < Len(t) /\ t[p + 1] = " " THEN 2
    ELSE IF t[p] = "." /\ AtDollar(t, p + 1) THEN 1
    ELSE IF t[p] \in {"!", "?", ";"} THEN 1
    ELSE 0

\* re.split(pattern with one group, t) from position start on: the text
\* before the leftmost match, the match, and so on; the rest after the last
RECURSIVE ReSplitFrom(_, _)
ReSplitFrom(t, start) ==
    LET ms == {p \in start..Len(t) : MatchLen(t, p) > 0}
    IN  IF ms = {} THEN <<SubSeq(t, start, Len(t))>>
        ELSE LET p == CHOOSE q \in ms : \A r \in ms : q <= r
             IN  <<SubSeq(t, start, p - 1), SubSeq(t, p, p + MatchLen(t, p) - 1)>>
                 \o ReSplitFrom(t, p + MatchLen(t, p))

ReSplit(t) == ReSplitFrom(t, 1)

\* the loop of tts_sentence_split over splits[i..], i counted from 0 as in
\* the source (splits[i] is splits[i + 1] here)
RECURSIVE SplitLoop(_, _, _)
SplitLoop(splits, i, last) ==
    IF i > Len(splits) - 1 THEN <<>>
    ELSE LET split == splits[i + 1]
             rest == SplitLoop(splits, i + 1, last)
         IN  IF i % 2 = 1 THEN rest
             ELSE IF split = <<>> THEN rest
             ELSE IF i = Len(splits) - 1
                  THEN (IF last THEN <<split>> ELSE <<>>) \o rest
             ELSE <<split \o splits[i + 2]>> \o rest

\* tts_sentence_split that yields the last line whatever include_last: a slip
SplitAlwaysLast(t, last) == SplitLoop(ReSplit(t), 0, TRUE)

\* the fragments tts_sentence_split(text, include_last) yields, in order
tts_sentence_split(t, last) == SplitLoop(ReSplit(t), 0, last)

(***************************************************************************)
(* handle_play's packing loop.                                             *)
(***************************************************************************)
\* the flush test with > for >=: a slip
FlushesStrict(chunk, to_add) == Len(chunk) + Len(to_add) > ChunkLimit

\* "if len(chunk) + len(to_add) >= 400"
Flushes(chunk, to_add) == Len(chunk) + Len(to_add) >= ChunkLimit

\* the loop body over the remaining fragments; acc = [chunks, chunk]
RECURSIVE PackLoop(_, _)
PackLoop(fs, acc) ==
    IF fs = <<>> THEN acc
    ELSE LET to_add == Head(fs)
             flushed == IF Flushes(acc.chunk, to_add)
                        THEN [chunks |-> Append(acc.chunks, Strip(acc.chunk)),
                              chunk |-> <<>>]
                        ELSE acc
         IN  PackLoop(Tail(fs),
                      [chunks |-> flushed.chunks, chunk |-> flushed.chunk \o to_add])

\* the packing without the last "if chunk: chunks.append(chunk)": a slip
PackFragmentsNoFinal(fs) == PackLoop(fs, [chunks |-> <<>>, chunk |-> <<>>]).chunks

\* lines 157-165: the chunks handle_play builds from the fragments fs
PackFragments(fs) ==
    LET acc == PackLoop(fs, [chunks |-> <<>>, chunk |-> <<>>])
    IN  IF acc.chunk # <<>> THEN Append(acc.chunks, acc.chunk) ELSE acc.chunks

PackChunks(t) == PackFragments(tts_sentence_split(t, TRUE))

(***************************************************************************)
(* SDK failures: azure.core.exceptions.                                    *)
(***************************************************************************)
Needle ==
    <<"c", "a", "l", "l", " ", "a", "l", "r", "e", "a", "d", "y", " ", "t",
      "e", "r", "m", "i", "n", "a", "t", "e", "d">>
MsgTerminated ==
    <<"(", "8", "5", "2", "2", ")", " ", "C", "a", "l", "l", " ", "A", "l",
      "r", "e", "a", "d", "y", " ", "T", "e", "r", "m", "i", "n", "a", "t",
      "e", "d", ".">>
MsgServer ==
    <<"I", "n", "t", "e", "r", "n", "a", "l", " ", "S", "e", "r", "v", "e",
      "r", " ", "E", "r", "r", "o", "r">>
MsgNotFound ==
    <<"C", "a", "l", "l", " ", "n", "o", "t", " ", "f", "o", "u", "n", "d">>
MsgConnection ==
    <<"C", "o", "n", "n", "e", "c", "t", "i", "o", "n", " ", "r", "e", "s",
      "e", "t">>

UpperCase ==
    <<"A", "B", "C", "D", "E", "F", "G", "H", "I", "J", "K", "L", "M", "N",
      "O", "P", "Q", "R", "S", "T", "U", "V", "W", "X", "Y", "Z">>
LowerCase ==
    <<"a", "b", "c", "d", "e", "f", "g", "h", "i", "j", "k", "l", "m", "n",
      "o", "p", "q", "r", "s", "t", "u", "v", "w", "x", "y", "z">>

LowerChar(c) ==
    IF \E i \in 1..Len(UpperCase) : UpperCase[i] = c
    THEN LowerCase[CHOOSE i \in 1..Len(UpperCase) : UpperCase[i] = c]
    ELSE c

\* str.lower()
Lower(s) == [i \in 1..Len(s) |-> LowerChar(s[i])]

\* sub in s
Contains(s, sub) ==
    \E i \in 0..(Len(s) - Len(sub)) : SubSeq(s, i + 1, i + Len(sub)) = sub

NoError == [kind |-> "none", message |-> <<>>]

\* what a call of the SDK can raise: ResourceNotFoundError (a subclass of
\* HttpResponseError), another HttpResponseError, and an error that is no
\* HttpResponseError at all
Errors ==
    { [kind |-> "ResourceNotFoundError", message |-> MsgNotFound],
      [kind |-> "HttpResponseError", message |-> MsgTerminated],
      [kind |-> "HttpResponseError", message |-> MsgServer],
      [kind |-> "ServiceRequestError", message |-> MsgConnection] }

\* the outcome of one call of the SDK: it returns, or raises
Outcomes == {NoError} \cup Errors

IsHttpResponseError(e) == e.kind \in {"ResourceNotFoundError", "HttpResponseError"}

\* handle_media's except clauses: TRUE when the error is swallowed
MediaCatches(e) ==
    \/ e.kind = "ResourceNotFoundError"
    \/ IsHttpResponseError(e) /\ Contains(Lower(e.message), Needle)

\* handle_play's except clauses without the one for ResourceNotFoundError
PlayCatchesNoNotFound(e) ==
    IsHttpResponseError(e) /\ Contains(Lower(e.message), Needle)

\* handle_play's except clauses without the "else: raise e"
PlayCatchesAllHttp(e) == IsHttpResponseError(e)

\* handle_play's except clauses: TRUE when the error is swallowed
PlayCatches(e) ==
    \/ e.kind = "ResourceNotFoundError"
    \/ IsHttpResponseError(e) /\ Contains(Lower(e.message), Needle)

\* _handle_recognize_media's except clauses
RecognizeCatches(e) ==
    \/ e.kind = "ResourceNotFoundError"
    \/ IsHttpResponseError(e) /\ Contains(Lower(e.message), Needle)

\* handle_recognize_ivr's except clause: ResourceNotFoundError only
IvrCatches(e) == e.kind = "ResourceNotFoundError"

(***************************************************************************)
(* Play sources and _audio_from_text.                                      *)
(***************************************************************************)
FileSource(url) == [kind |-> "file", url |-> url, style |-> "", text |-> <<>>]

SsmlSource(s, t) == [kind |-> "ssml", url |-> "", style |-> s, text |-> t]

Log(level, msg) == [level |-> level, msg |-> msg]

\* _audio_from_text without the truncation: a slip
AudioNoTruncate(t, s) ==
    [source |-> SsmlSource(s, t),
     logs |-> IF Len(t) > TtsLimit THEN <<Log("warning", "too long")>> ELSE <<>>]

\* _audio_from_text(text, style, call): the source it returns (the text the
\* markup embeds, and the style) and what it logs
audio_from_text(t, s) ==
    [source |-> SsmlSource(s, IF Len(t) > TtsLimit THEN Take(t, TtsLimit) ELSE t),
     logs |-> IF Len(t) > TtsLimit THEN <<Log("warning", "too long")>> ELSE <<>>]

\* one request to the SDK, with the outcome it had
SdkCall(api, source, timeout, o) ==
    [api |-> api, source |-> source, timeout |-> timeout, outcome |-> o]

(***************************************************************************)
(* The transcript call.messages.                                           *)
(***************************************************************************)
Message(content, persona, s) == [content |-> content, persona |-> persona, style |-> s]

\* lines 143-154 with the merge branch left out: a slip
StoreAlwaysAppend(msgs, t, s) == Append(msgs, Message(t, "assistant", s))

\* lines 143-154: merge into the last message of the assistant, or append
StoreMessage(msgs, t, s) ==
    IF msgs # <<>> /\ msgs[Len(msgs)].persona = "assistant"
    THEN [msgs EXCEPT ![Len(msgs)].content = @ \o <<" ">> \o t]
    ELSE Append(msgs, Message(t, "assistant", s))

(***************************************************************************)
(* Inputs.                                                                 *)
(***************************************************************************)
\* what the texts are built from: single characters (a letter, a space, the
\* two kinds of punctuation, a newline) and two runs of letters, the longer
\* one as long as the chunk limit
Pieces ==
    { <<"a">>, <<" ">>, <<".">>, <<"!">>, <<"\n">>,
      Rep("a", LongRun), Rep("a", ChunkLimit) }

TextsOf(n) == {Flatten(ps) : ps \in UNION {[1..m -> Pieces] : m \in 0..n}}

\* texts of three sentences: two chunks, none empty and none oversized; a
\* first chunk of two sentences that a third sentence flushes at just the
\* chunk limit; a first chunk of two short sentences, stripped when flushed
SampleTexts ==
    { Flatten(<<Rep("a", LongRun), <<"!", " ">>, Rep("a", LongRun),
                <<"!", " ", "a", ".">>>>),
      Flatten(<<Rep("a", LongRun), <<"!">>, Rep("a", ChunkLimit - LongRun - 2),
                <<"!", "a">>>>),
      Flatten(<<<<"a", "!", " ", "a", ".", " ">>, Rep("a", ChunkLimit),
                <<".">>>>) }

\* the texts given to tts_sentence_split and to the packing loop alone
Texts == TextsOf(MaxPieces) \cup SampleTexts

\* the texts given to the operations on a call
CallTexts == TextsOf(MaxCallPieces) \cup SampleTexts

\* MessageStyleEnum (two of its values)
Styles == {"none", "cheerful"}

\* call.messages when an operation starts
Transcripts ==
    { <<>>,
      <<Message(<<"h", "i">>, "human", "none")>>,
      <<Message(<<"h", "i">>, "human", "none"),
        Message(<<"y", "o">>, "assistant", "cheerful")>> }

(***************************************************************************)
(* The operations on a call.                                               *)
(***************************************************************************)
Init ==
    /\ pc = "idle" /\ op = "none"
    /\ text = <<>> /\ hasText = FALSE /\ style = "none" /\ store = FALSE
    /\ include_last = FALSE
    /\ messages \in Transcripts /\ messages0 = messages
    /\ frags = <<>> /\ chunks = <<>> /\ k = 0
    /\ sdk = <<>> /\ logs = <<>> /\ raised = NoError

\* handle_recognize_text that returns after playing: a slip
AfterPlayNoRecognize(caller) == "done"

\* where control goes when handle_play returns normally
AfterPlay(caller) ==
    IF caller = "handle_recognize_text" THEN "recognize" ELSE "done"

\* handle_play, lines 142-165: the transcript, then the chunks
HandlePlayEnter(caller, t, s, st) ==
    /\ text' = t /\ hasText' = TRUE /\ style' = s /\ store' = st
    /\ messages' = IF st THEN StoreMessage(messages, t, s) ELSE messages
    /\ frags' = tts_sentence_split(t, TRUE)
    /\ chunks' = PackChunks(t)
    /\ k' = 1
    /\ pc' = IF chunks' = <<>> THEN AfterPlay(caller) ELSE "play"

\* handle_play is called
CallHandlePlay ==
    /\ pc = "idle"
    /\ \E t \in CallTexts, s \in Styles, st \in BOOLEAN :
          HandlePlayEnter("handle_play", t, s, st)
    /\ op' = "handle_play"
    /\ UNCHANGED <<include_last, messages0, sdk, logs, raised>>

\* handle_recognize_text is called, with a text or with none: "if text:"
\* calls handle_play, and _handle_recognize_media follows
CallHandleRecognizeText ==
    /\ pc = "idle"
    /\ \E given \in BOOLEAN, t \in CallTexts, s \in Styles, st \in BOOLEAN :
          /\ given \/ t = <<>>
          /\ IF given /\ t # <<>>
             THEN HandlePlayEnter("handle_recognize_text", t, s, st)
             ELSE /\ text' = t /\ hasText' = given /\ style' = s /\ store' = st
                  /\ pc' = "recognize"
                  /\ UNCHANGED <<messages, frags, chunks, k>>
    /\ op' = "handle_recognize_text"
    /\ UNCHANGED <<include_last, messages0, sdk, logs, raised>>

\* handle_play, lines 167-180: one turn of the loop over the chunks, with
\* the outcome of client.play_media
PlayChunk ==
    /\ pc = "play"
    /\ \E o \in Outcomes :
          LET a == audio_from_text(chunks[k], style)
          IN  /\ sdk' = Append(sdk, SdkCall("play_media", a.source, 0, o))
              /\ logs' = logs \o <<Log("info", "Playing text")>> \o a.logs
                         \o (IF o # NoError /\ PlayCatches(o)
                             THEN <<Log("debug", "Call hung up before playing")>>
                             ELSE <<>>)
              /\ IF o = NoError
                 THEN /\ k' = k + 1
                      /\ pc' = IF k + 1 > Len(chunks) THEN AfterPlay(op) ELSE "play"
                      /\ raised' = raised
                 ELSE IF PlayCatches(o)
                 THEN /\ k' = k
                      /\ pc' = AfterPlay(op)
                      /\ raised' = raised
                 ELSE /\ k' = k
                      /\ pc' = "done"
                      /\ raised' = o
    /\ UNCHANGED <<op, text, hasText, style, store, include_last,
                   messages, messages0, frags, chunks>>

\* _handle_recognize_media, called by handle_recognize_text with the "ready"
\* sound
RecognizeMedia ==
    /\ pc = "recognize"
    /\ \E o \in Outcomes :
          /\ sdk' = Append(sdk, SdkCall("start_recognizing_media",
                                        FileSource("ready"),
                                        RecognizeSilenceTimeout, o))
          /\ logs' = logs \o <<Log("debug", "Recognizing media")>>
                     \o (IF o # NoError /\ RecognizeCatches(o)
                         THEN <<Log("debug", "Call hung up")>>
                         ELSE <<>>)
          /\ raised' = IF o # NoError /\ ~RecognizeCatches(o) THEN o ELSE raised
    /\ pc' = "done"
    /\ UNCHANGED <<op, text, hasText, style, store, include_last,
                   messages, messages0, frags, chunks, k>>

\* handle_media
CallHandleMedia ==
    /\ pc = "idle"
    /\ \E o \in Outcomes :
          /\ sdk' = <<SdkCall("play_media", FileSource("sound"), 0, o)>>
          /\ logs' = IF o # NoError /\ MediaCatches(o)
                     THEN <<Log("debug", "Call hung up before playing")>>
                     ELSE <<>>
          /\ raised' = IF o # NoError /\ ~MediaCatches(o) THEN o ELSE NoError
    /\ op' = "handle_media"
    /\ pc' = "done"
    /\ UNCHANGED <<text, hasText, style, store, include_last,
                   messages, messages0, frags, chunks, k>>

\* handle_recognize_ivr
CallHandleRecognizeIvr ==
    /\ pc = "idle"
    /\ \E t \in CallTexts, o \in Outcomes :
          LET a == audio_from_text(t, "none")
          IN  /\ text' = t
              /\ sdk' = <<SdkCall("start_recognizing_media", a.source,
                                  IvrSilenceTimeout, o)>>
              /\ logs' = <<Log("info", "Playing text before IVR"),
                           Log("debug", "Recognizing IVR")>> \o a.logs
                         \o (IF o # NoError /\ IvrCatches(o)
                             THEN <<Log("debug", "Call hung up")>>
                             ELSE <<>>)
              /\ raised' = IF o # NoError /\ ~IvrCatches(o) THEN o ELSE NoError
    /\ hasText' = TRUE
    /\ op' = "handle_recognize_ivr"
    /\ pc' = "done"
    /\ UNCHANGED <<style, store, include_last, messages, messages0,
                   frags, chunks, k>>

Next ==
    \/ CallHandleMedia
    \/ CallHandlePlay
    \/ CallHandleRecognizeText
    \/ CallHandleRecognizeIvr
    \/ PlayChunk
    \/ RecognizeMedia

Spec == Init /\ [][Next]_vars

(***************************************************************************)
(* The text functions alone.                                               *)
(***************************************************************************)
InitText ==
    /\ pc = "idle" /\ op = "none"
    /\ text \in Texts /\ hasText = TRUE /\ style = "none" /\ store = FALSE
    /\ include_last = FALSE
    /\ messages = <<>> /\ messages0 = <<>>
    /\ frags = <<>> /\ chunks = <<>> /\ k = 0
    /\ sdk = <<>> /\ logs = <<>> /\ raised = NoError

\* tts_sentence_split(text, include_last), the generator run to its end
SplitText ==
    /\ pc = "idle"
    /\ \E last \in BOOLEAN :
          /\ include_last' = last
          /\ frags' = tts_sentence_split(text, last)
    /\ op' = "tts_sentence_split"
    /\ pc' = "done"
    /\ UNCHANGED <<text, hasText, style, store, messages,
                   messages0, chunks, k, sdk, logs, raised>>

\* lines 156-165 of handle_play, which split with include_last=True
PackText ==
    /\ pc = "idle"
    /\ include_last' = TRUE
    /\ frags' = tts_sentence_split(text, TRUE)
    /\ chunks' = PackChunks(text)
    /\ op' = "pack"
    /\ pc' = "done"
    /\ UNCHANGED <<text, hasText, style, store, messages,
                   messages0, k, sdk, logs, raised>>

NextText == SplitText \/ PackText

SpecText == InitText /\ [][NextText]_vars

(***************************************************************************)
(* The claims about the text functions, checked under SpecText.            *)
(***************************************************************************)
Packed == op = "pack" /\ pc = "done"

SplitDone == op = "tts_sentence_split" /\ pc = "done"

\* s without its whitespace
NonSpace(s) == SelectSeq(s, LAMBDA c : c \notin Whitespace)

\* the match of the sentence pattern at p begins t or follows another match
\* at once: re.split then yields an empty string before it
AfterEmptySegment(t, p) ==
    /\ MatchLen(t, p) > 0
    /\ \/ p = 1
       \/ p > 1 /\ MatchLen(t, p - 1) = 1
       \/ p > 2 /\ MatchLen(t, p - 2) = 2

\* t without the matches that come after an empty segment
Kept(t) ==
    LET gone(i) == \/ AfterEmptySegment(t, i)
                   \/ i > 1 /\ AfterEmptySegment(t, i - 1) /\ MatchLen(t, i - 1) = 2
        idx == SelectSeq([i \in 1..Len(t) |-> i], LAMBDA i : ~gone(i))
    IN  [j \in 1..Len(idx) |-> t[idx[j]]]

ClaimC3 ==
    (Packed /\ Len(text) > ChunkLimit /\ frags = <<text>>) => chunks = <<text>>

\* the sentence punctuation as the claim lists it: ". ", "." at the end of
\* the string, "!", "?" and ";"
NoPunctuationClaimed(t) ==
    \A p \in 1..Len(t) :
        /\ t[p] \notin {"!", "?", ";"}
        /\ ~(t[p] = "." /\ p < Len(t) /\ t[p + 1] = " ")
        /\ ~(t[p] = "." /\ p = Len(t))

\* no "." right before a newline that ends the text either
NoPunctuation(t) ==
    /\ NoPunctuationClaimed(t)
    /\ ~(Len(t) >= 2 /\ t[Len(t) - 1] = "." /\ t[Len(t)] = "\n")

\* C7 as claimed: a text without sentence punctuation, the empty text
\* included, yields no fragment with include_last false and exactly one, the
\* text, with include_last true.
ClaimC7 ==
    (SplitDone /\ NoPunctuationClaimed(text)) =>
        frags = IF include_last THEN <<text>> ELSE <<>>

\* C7 as amended: a text without sentence punctuation, a "." right before a
\* final newline counting as punctuation, yields no fragment with
\* include_last false; with include_last true it yields exactly one
\* fragment, the text, when the text is not empty, and none when it is.
TheoremC7 ==
    (SplitDone /\ NoPunctuation(text)) =>
        frags = IF include_last /\ text # <<>> THEN <<text>> ELSE <<>>

\* a text with a "." that ends no sentence was split with include_last false
WitnessC7 ==
    /\ SplitDone /\ NoPunctuation(text) /\ ~include_last
    /\ \E p \in 1..Len(text) : text[p] = "."

(***************************************************************************)
(* The claims about the operations on a call, checked under Spec.          *)
(***************************************************************************)
\* the failures the layer calls benign
IsBenign(e) ==
    \/ e.kind = "ResourceNotFoundError"
    \/ e.kind = "HttpResponseError" /\ Contains(Lower(e.message), Needle)

\* handle_play runs or ran, called directly or by handle_recognize_text
PlayCalled ==
    \/ op = "handle_play"
    \/ op = "handle_recognize_text" /\ hasText /\ text # <<>>

Plays == {j \in 1..Len(sdk) : sdk[j].api = "play_media"}

Recognitions == {j \in 1..Len(sdk) : sdk[j].api = "start_recognizing_media"}

\* C4: when play_media fails with a resource-not-found error on chunk j,
\* handle_play returns normally (no error reaches its caller) and submits no
\* chunk after j.
TheoremC4 ==
    \A j \in Plays :
        (PlayCalled /\ sdk[j].outcome.kind = "ResourceNotFoundError") =>
            /\ \A i \in Plays : i <= j
            /\ pc # "play"
            /\ op = "handle_play" => (pc = "done" /\ raised = NoError /\ j = Len(sdk))
            /\ (op = "handle_recognize_text" /\ j = Len(sdk)) =>
                  (pc = "recognize" /\ raised = NoError)

\* handle_play returned after a resource-not-found error on a chunk that is
\* not empty and not the last
WitnessC4 ==
    /\ op = "handle_play" /\ pc = "done"
    /\ \E j \in Plays :
          /\ sdk[j].outcome.kind = "ResourceNotFoundError"
          /\ j < Len(chunks)
          /\ chunks[j] # <<>>

\* C5: in every operation that calls the SDK, a benign failure never reaches
\* the caller, and every other failure always does.
ClaimC5 ==
    pc = "done" =>
        /\ raised # NoError => ~IsBenign(raised)
        /\ \A j \in 1..Len(sdk) :
              (sdk[j].outcome # NoError /\ ~IsBenign(sdk[j].outcome)) =>
                  raised = sdk[j].outcome

\* C6: when play_media fails during handle_play with an HTTP error whose
\* message does not contain "call already terminated", handle_play raises
\* that very error and submits no chunk after the failing one.
TheoremC6 ==
    \A j \in Plays :
        ( /\ PlayCalled
          /\ sdk[j].outcome.kind = "HttpResponseError"
          /\ ~Contains(Lower(sdk[j].outcome.message), Needle) ) =>
            /\ raised = sdk[j].outcome
            /\ pc = "done"
            /\ j = Len(sdk)

\* such an error was raised on a chunk that is not empty and not the last
WitnessC6 ==
    /\ op = "handle_play" /\ pc = "done"
    /\ \E j \in Plays :
          /\ sdk[j].outcome.kind = "HttpResponseError"
          /\ raised = sdk[j].outcome
          /\ j < Len(chunks)
          /\ chunks[j] # <<>>

\* the requests whose source _audio_from_text built
SsmlCalls == {j \in 1..Len(sdk) : sdk[j].source.kind = "ssml"}

\* the text _audio_from_text was given for request j: the j-th chunk in
\* handle_play, the prompt in handle_recognize_ivr
AudioInput(j) == IF op = "handle_recognize_ivr" THEN text ELSE chunks[j]

Warnings == SelectSeq(logs, LAMBDA l : l.level = "warning")

\* C8: the markup of every call of _audio_from_text embeds the first
\* min(len(text), 400) characters of its text, a warning is logged exactly
\* for the texts longer than 400, and so no markup given to the SDK embeds
\* more than 400 characters.
TheoremC8 ==
    /\ \A j \in SsmlCalls :
          LET t == AudioInput(j)
              n == IF Len(t) < 400 THEN Len(t) ELSE 400
          IN  /\ sdk[j].source.text = [i \in 1..n |-> t[i]]
              /\ Len(sdk[j].source.text) <= 400
    /\ Len(Warnings) = Cardinality({j \in SsmlCalls : Len(AudioInput(j)) > 400})

\* handle_play submitted a chunk longer than 400 characters
WitnessC8 ==
    /\ op = "handle_play"
    /\ \E j \in SsmlCalls : Len(chunks[j]) > 400 /\ Len(sdk[j].source.text) = 400
    /\ Len(Warnings) = 1

\* playback raised an error to handle_recognize_text
PlaybackRaised ==
    \E j \in Plays : sdk[j].outcome # NoError /\ ~IsBenign(sdk[j].outcome)

\* C9: in handle_recognize_text, when playback raises nothing (a swallowed
\* benign failure included) exactly one recognition request is issued, after
\* every play_media request; without a text, or with the empty text, it is
\* the only request; when playback raises, no recognition request is issued.
TheoremC9 ==
    op = "handle_recognize_text" =>
        /\ Cardinality(Recognitions) <= 1
        /\ \A r \in Recognitions : \A p \in Plays : p < r
        /\ (pc = "done" /\ ~PlaybackRaised) => Cardinality(Recognitions) = 1
        /\ (pc = "done" /\ (~hasText \/ text = <<>>)) =>
              /\ Len(sdk) = 1
              /\ sdk[1].api = "start_recognizing_media"
              /\ sdk[1].source = FileSource("ready")
        /\ PlaybackRaised => Recognitions = {}

\* recognition was requested after a swallowed failure of the first of
\* several chunks
WitnessC9 ==
    /\ op = "handle_recognize_text" /\ pc = "done"
    /\ Len(chunks) >= 2
    /\ Plays = {1}
    /\ IsBenign(sdk[1].outcome)
    /\ Recognitions = {2}

LastIsAssistant(msgs) == msgs # <<>> /\ msgs[Len(msgs)].persona = "assistant"

\* C10: handle_play leaves the transcript alone with store false; with store
\* true it merges the text into a last entry of the assistant (old content,
\* a space, the text; as many entries as before) and otherwise appends one
\* entry of the assistant with the text and the style; the earlier entries
\* are left alone, and the update is in place before any chunk is submitted,
\* whatever the outcome of the playback.
TheoremC10 ==
    PlayCalled =>
        LET n == Len(messages0)
        IN  IF ~store THEN messages = messages0
            ELSE IF LastIsAssistant(messages0)
            THEN /\ Len(messages) = n
                 /\ messages[n].content = messages0[n].content \o <<" ">> \o text
                 /\ \A i \in 1..(n - 1) : messages[i] = messages0[i]
            ELSE /\ Len(messages) = n + 1
                 /\ messages[n + 1] = Message(text, "assistant", style)
                 /\ \A i \in 1..n : messages[i] = messages0[i]

\* a text was merged into the last entry and the playback then raised
WitnessC10 ==
    /\ op = "handle_play" /\ pc = "done" /\ store
    /\ LastIsAssistant(messages0)
    /\ text # <<>>
    /\ raised # NoError

====
